---- MODULE Spec2Model ----
(***************************************************************************)
(* Coordinator of a replicated key-value store                             *)
(* (src/distributedkeyvaluestore/dist.py, node.py): primary selection,    *)
(* replica-set derivation, write fan-out and the quorum decision.          *)
(*                                                                         *)
(* A cluster is a list of distinct nodes.  Node is an abstract contract:   *)
(* a node's put may return False (it then stores nothing) and its get may  *)
(* answer absent; KVNode is the node whose calls always succeed.  hash()   *)
(* of a str is fixed by the key and the seed of the running process, and   *)
(* the iteration order of a set of nodes by the hashes of the node         *)
(* objects: both are fixed at start-up and differ from run to run.         *)
(*                                                                         *)
(* Token-bucket rate limiter (src/ratelimiter/tokenbucket.py):             *)
(* TokenBucketLimiter under its lock, with the clock kept as the time      *)
(* elapsed since last_filled, and MultiKeyRateLimiter's bucket table.      *)
(* Each specification runs one of the three objects and leaves the state   *)
(* of the other two as constructed.                                        *)
(***************************************************************************)
EXTENDS Integers, Sequences, FiniteSets, TLC

\* ------------------------------------------------------------------ bounds
MaxNodes == 3       \* largest cluster that is constructed
MaxSeed == 2        \* hash seeds 0..MaxSeed of the running process
MaxOps == 2         \* get/put calls issued in one behaviour

MaxRF == MaxNodes + 1   \* requested replication factors 0..MaxRF

MaxCapacity == 2    \* bucket capacities 0..MaxCapacity
MaxRate == 2        \* refresh rates -1..MaxRate tokens per second
TicksPerSecond == 2 \* resolution of the clock: ticks in one second
MaxCalls == 4       \* grant_access calls whose results are tallied
MaxBuckets == 2     \* bucket objects a MultiKeyRateLimiter creates

\* elapsed times from which a refill at one token per second or more fills
\* any bucket are kept as this one
ElapsedCap == TicksPerSecond * (MaxCapacity + 1)

Threads == {"t1", "t2"}
LiveThreads == {"t1"}
BucketKeys == {"user:123", "user:456"}

NodeNames == <<"A", "B", "C", "D", "E">>
Keys == {"foo", "bar"}
Values == {"v1", "v2"}
None == "None"
Callers == {"c1", "c2"}
SeqCallers == {"c1"}

VARIABLES
    nodes,               \* self.nodes: the ordered node list
    replication_factor,  \* self.replication_factor (effective)
    hash_seed,           \* seed of the process's str hash
    set_iter_order,      \* iteration order of a set of node objects
    data,                \* data[n][k]: KVNode.data of node n
    handoff,             \* hinted-handoff queue of (node, key, value)
    call,                \* call[c]: the call caller c is executing
    ops                  \* calls started so far

VARIABLES
    capacity,            \* TokenBucketLimiter.capacity
    refresh_rate,        \* TokenBucketLimiter.refresh_rate, tokens per second
    current_capacity,    \* TokenBucketLimiter.current_capacity
    elapsed,             \* monotonic() - self.last_filled, in clock ticks
    lock,                \* TokenBucketLimiter.lock: the thread holding it
    thread,              \* thread[t]: where thread t is in its call
    tally                \* results of the first MaxCalls grant_access calls

VARIABLES
    default_capacity,    \* MultiKeyRateLimiter.default_capacity
    buckets,             \* MultiKeyRateLimiter.buckets: key -> bucket object
    bucket_tokens,       \* current_capacity of each bucket object
    created,             \* bucket objects created so far
    worker               \* worker[t]: where thread t is in its call

kv_vars == <<nodes, replication_factor, hash_seed, set_iter_order, data,
             handoff, call, ops>>

tb_vars == <<capacity, refresh_rate, current_capacity, elapsed, lock, thread,
             tally>>

mk_vars == <<default_capacity, buckets, bucket_tokens, created, worker>>

vars == <<kv_vars, tb_vars, mk_vars>>

\* ----------------------------------------------------------------- helpers
Range(s) == {s[i] : i \in 1..Len(s)}

Min(a, b) == IF a <= b THEN a ELSE b

Abs(x) == IF x < 0 THEN -x ELSE x

\* math.ceil(x / 2) for an integer x
CeilHalf(x) == (x + 1) \div 2

\* list.index(x): the first 0-based position of x in s
RECURSIVE IndexFrom(_, _, _)
IndexFrom(s, x, i) ==
    IF s[i + 1] = x THEN i ELSE IndexFrom(s, x, i + 1)

Index(s, x) == IndexFrom(s, x, 0)

\* all orderings of the members of the sequence s
Orderings(s) ==
    {p \in [1..Len(s) -> Range(s)] : \A i, j \in 1..Len(s) : i # j => p[i] # p[j]}

\* list(set(s)): the distinct members of s in the set's iteration order
ListOfSet(s) == SelectSeq(set_iter_order, LAMBDA n : n \in Range(s))

\* the clusters that are constructed: prefixes of NodeNames, the empty one too
Clusters == {SubSeq(NodeNames, 1, n) : n \in 0..MaxNodes}

\* ------------------------------------------------------------ str hashing
KeyCode(key) == IF key = "foo" THEN 11 ELSE 6

\* hash(key): a signed integer fixed by the key and the process's seed
StrHash(key, seed) == (((KeyCode(key) + seed) * (2 * seed + 3)) % 16) - 8

\* ------------------------------------------------------------- coordinator
\* index = abs(hash(key) % len(self.nodes)), 0-based
PrimaryIndex(key) == Abs(StrHash(key, hash_seed) % Len(nodes))

GetPrimaryNodeForKey(key) == nodes[PrimaryIndex(key) + 1]

\* the ring walk without the test that skips the primary
RECURSIVE ReplicaWalk_KeepPrimary(_, _, _)
ReplicaWalk_KeepPrimary(primary_index, i, replicas) ==
    IF i >= replication_factor
    THEN replicas
    ELSE LET replica_index == (primary_index + i) % Len(nodes)
             appended == Append(replicas, nodes[replica_index + 1])
         IN  IF Len(appended) = replication_factor - 1
             THEN appended
             ELSE ReplicaWalk_KeepPrimary(primary_index, i + 1, appended)

\* the loop of _get_replica_nodes from iteration i on
RECURSIVE ReplicaWalk(_, _, _)
ReplicaWalk(primary_index, i, replicas) ==
    IF i >= replication_factor
    THEN replicas
    ELSE LET replica_index == (primary_index + i) % Len(nodes)
             appended == IF primary_index # replica_index
                         THEN Append(replicas, nodes[replica_index + 1])
                         ELSE replicas
         IN  IF Len(appended) = replication_factor - 1
             THEN appended
             ELSE ReplicaWalk(primary_index, i + 1, appended)

\* the replicas collected by the ring walk, before the set conversion
RingReplicas(primary) ==
    IF Len(nodes) = 1 \/ replication_factor <= 1
    THEN <<>>
    ELSE ReplicaWalk(Index(nodes, primary), 0, <<>>)

GetReplicaNodes(primary) == ListOfSet(RingReplicas(primary))

\* a quorum rounded down instead of up
WriteQuorumOf_Floor(rf) ==
    IF rf = 1 THEN 1 ELSE 1 + ((rf - 1) \div 2)

\* writeQuorum of put, dist.py 57-59, for a replication factor rf
WriteQuorumOf(rf) ==
    IF rf = 1 THEN 1 ELSE 1 + CeilHalf(rf - 1)

WriteQuorum == WriteQuorumOf(replication_factor)

\* ------------------------------------------------------------------- calls
IdleCall ==
    [pc |-> "idle", op |-> "none", key |-> None, value |-> None,
     primary |-> None, primary_value |-> None, replicas |-> <<>>, idx |-> 0,
     replica_successes |-> 0, accepted |-> FALSE, got |-> None,
     log |-> <<>>]

NodeCall(node, method, ok) == [node |-> node, method |-> method, ok |-> ok]

\* a put that reports success without storing the value
NodePut_Discard(d, node, key, value, ok) == d

\* Node.put: a node that accepts stores the value and returns True
NodePut(d, node, key, value, ok) ==
    IF ok THEN [d EXCEPT ![node][key] = value] ELSE d

\* Node.get: the stored value, absent when the node cannot answer
NodeGet(node, key, responsive) ==
    IF responsive THEN data[node][key] ELSE None

CanStart(c) == call[c].pc \in {"idle", "done", "raised"} /\ ops < MaxOps

\* a get that asks the next node of the ring when the primary has no value
Get_ReplicaFallback(c, key) ==
    /\ CanStart(c)
    /\ ops' = ops + 1
    /\ IF Len(nodes) = 0
       THEN call' = [call EXCEPT ![c] =
                [IdleCall EXCEPT !.pc = "raised", !.op = "get", !.key = key]]
       ELSE \E responsive \in BOOLEAN :
              LET primary == GetPrimaryNodeForKey(key)
                  value == NodeGet(primary, key, responsive)
                  other == nodes[((PrimaryIndex(key) + 1) % Len(nodes)) + 1]
                  miss == value = None /\ other # primary
              IN  call' = [call EXCEPT ![c] =
                    [IdleCall EXCEPT !.pc = "done", !.op = "get", !.key = key,
                        !.primary = primary, !.primary_value = value,
                        !.got = IF miss THEN NodeGet(other, key, TRUE)
                                ELSE value,
                        !.log = IF miss
                                THEN <<NodeCall(primary, "get", responsive),
                                       NodeCall(other, "get", TRUE)>>
                                ELSE <<NodeCall(primary, "get", responsive)>>]]
    /\ UNCHANGED <<tb_vars, mk_vars, nodes, replication_factor, hash_seed,
                   set_iter_order,
                   data, handoff>>

\* get(key), dist.py 32-37
Get(c, key) ==
    /\ CanStart(c)
    /\ ops' = ops + 1
    /\ IF Len(nodes) = 0
       THEN call' = [call EXCEPT ![c] =
                [IdleCall EXCEPT !.pc = "raised", !.op = "get", !.key = key]]
       ELSE \E responsive \in BOOLEAN :
              LET primary == GetPrimaryNodeForKey(key)
                  value == NodeGet(primary, key, responsive)
              IN  call' = [call EXCEPT ![c] =
                    [IdleCall EXCEPT !.pc = "done", !.op = "get", !.key = key,
                        !.primary = primary, !.primary_value = value,
                        !.got = value,
                        !.log = <<NodeCall(primary, "get", responsive)>>]]
    /\ UNCHANGED <<tb_vars, mk_vars, nodes, replication_factor, hash_seed,
                   set_iter_order,
                   data, handoff>>

\* a put that goes on to the replicas after a failed primary write
PutPrimary_NoAbort(c, key, value) ==
    /\ CanStart(c)
    /\ ops' = ops + 1
    /\ IF Len(nodes) = 0
       THEN /\ call' = [call EXCEPT ![c] =
                [IdleCall EXCEPT !.pc = "raised", !.op = "put", !.key = key,
                    !.value = value]]
            /\ data' = data
       ELSE \E primary_success \in BOOLEAN :
              LET primary == GetPrimaryNodeForKey(key)
                  started == [IdleCall EXCEPT !.op = "put", !.key = key,
                                 !.value = value, !.primary = primary,
                                 !.log = <<NodeCall(primary, "put",
                                                    primary_success)>>]
              IN  /\ data' = NodePut(data, primary, key, value, primary_success)
                  /\ call' = [call EXCEPT ![c] =
                        [started EXCEPT !.pc = "replicas",
                            !.replicas = GetReplicaNodes(primary),
                            !.idx = 1]]
    /\ UNCHANGED <<tb_vars, mk_vars, nodes, replication_factor, hash_seed,
                   set_iter_order,
                   handoff>>

\* put(key, value), dist.py 40-46: the primary write and the replica set
PutPrimary(c, key, value) ==
    /\ CanStart(c)
    /\ ops' = ops + 1
    /\ IF Len(nodes) = 0
       THEN /\ call' = [call EXCEPT ![c] =
                [IdleCall EXCEPT !.pc = "raised", !.op = "put", !.key = key,
                    !.value = value]]
            /\ data' = data
       ELSE \E primary_success \in BOOLEAN :
              LET primary == GetPrimaryNodeForKey(key)
                  started == [IdleCall EXCEPT !.op = "put", !.key = key,
                                 !.value = value, !.primary = primary,
                                 !.log = <<NodeCall(primary, "put",
                                                    primary_success)>>]
              IN  /\ data' = NodePut(data, primary, key, value, primary_success)
                  /\ call' = [call EXCEPT ![c] =
                        IF ~primary_success
                        THEN [started EXCEPT !.pc = "done", !.accepted = FALSE]
                        ELSE [started EXCEPT !.pc = "replicas",
                                 !.replicas = GetReplicaNodes(primary),
                                 !.idx = 1]]
    /\ UNCHANGED <<tb_vars, mk_vars, nodes, replication_factor, hash_seed,
                   set_iter_order,
                   handoff>>

\* a fan-out that counts every replica it called, accepted or not
PutReplica_CountAll(c) ==
    /\ call[c].pc = "replicas"
    /\ call[c].idx <= Len(call[c].replicas)
    /\ \E replica_success \in BOOLEAN :
         LET replica == call[c].replicas[call[c].idx]
         IN  /\ data' = NodePut(data, replica, call[c].key, call[c].value,
                                replica_success)
             /\ call' = [call EXCEPT ![c] =
                   [@ EXCEPT !.idx = @ + 1,
                       !.replica_successes = @ + 1,
                       !.log = Append(@, NodeCall(replica, "put",
                                                  replica_success))]]
    /\ UNCHANGED <<tb_vars, mk_vars, nodes, replication_factor, hash_seed,
                   set_iter_order,
                   handoff, ops>>

\* a fan-out that stops at the first replica whose put fails
PutReplica_StopOnFailure(c) ==
    /\ call[c].pc = "replicas"
    /\ call[c].idx <= Len(call[c].replicas)
    /\ \E replica_success \in BOOLEAN :
         LET replica == call[c].replicas[call[c].idx]
         IN  /\ data' = NodePut(data, replica, call[c].key, call[c].value,
                                replica_success)
             /\ call' = [call EXCEPT ![c] =
                   [@ EXCEPT !.idx = IF replica_success THEN @ + 1
                                     ELSE Len(call[c].replicas) + 1,
                       !.replica_successes =
                           IF replica_success THEN @ + 1 ELSE @,
                       !.log = Append(@, NodeCall(replica, "put",
                                                  replica_success))]]
    /\ UNCHANGED <<tb_vars, mk_vars, nodes, replication_factor, hash_seed,
                   set_iter_order,
                   handoff, ops>>

\* put, dist.py 49-55: one iteration of the fan-out loop
PutReplica(c) ==
    /\ call[c].pc = "replicas"
    /\ call[c].idx <= Len(call[c].replicas)
    /\ \E replica_success \in BOOLEAN :
         LET replica == call[c].replicas[call[c].idx]
         IN  /\ data' = NodePut(data, replica, call[c].key, call[c].value,
                                replica_success)
             /\ call' = [call EXCEPT ![c] =
                   [@ EXCEPT !.idx = @ + 1,
                       !.replica_successes =
                           IF replica_success THEN @ + 1 ELSE @,
                       !.log = Append(@, NodeCall(replica, "put",
                                                  replica_success))]]
    /\ UNCHANGED <<tb_vars, mk_vars, nodes, replication_factor, hash_seed,
                   set_iter_order,
                   handoff, ops>>

\* a quorum decision that deletes the primary's copy when quorum is not met
PutReturn_Rollback(c) ==
    /\ call[c].pc = "replicas"
    /\ call[c].idx > Len(call[c].replicas)
    /\ LET accepted == 1 + call[c].replica_successes >= WriteQuorum
       IN  /\ call' = [call EXCEPT ![c] =
                 [@ EXCEPT !.pc = "done", !.accepted = accepted,
                     !.log = IF accepted THEN @
                             ELSE Append(@, NodeCall(call[c].primary,
                                                     "delete", TRUE))]]
           /\ data' = IF accepted THEN data
                      ELSE [data EXCEPT ![call[c].primary][call[c].key] = None]
    /\ UNCHANGED <<tb_vars, mk_vars, nodes, replication_factor, hash_seed,
                   set_iter_order,
                   handoff, ops>>

\* a quorum decision that stores the quorum over the replication factor
PutReturn_ClobbersFactor(c) ==
    /\ call[c].pc = "replicas"
    /\ call[c].idx > Len(call[c].replicas)
    /\ call' = [call EXCEPT ![c] =
          [@ EXCEPT !.pc = "done",
              !.accepted = (1 + call[c].replica_successes >= WriteQuorum)]]
    /\ replication_factor' = WriteQuorum
    /\ UNCHANGED <<tb_vars, mk_vars, nodes, hash_seed, set_iter_order, data,
                   handoff, ops>>

\* put, dist.py 57-63: the quorum decision
PutReturn(c) ==
    /\ call[c].pc = "replicas"
    /\ call[c].idx > Len(call[c].replicas)
    /\ call' = [call EXCEPT ![c] =
          [@ EXCEPT !.pc = "done",
              !.accepted = (1 + call[c].replica_successes >= WriteQuorum)]]
    /\ UNCHANGED <<tb_vars, mk_vars, nodes, replication_factor, hash_seed,
                   set_iter_order,
                   data, handoff, ops>>

\* ------------------------------------------------------ TokenBucketLimiter
IdleThread == [pc |-> "idle", loaded |-> 0, result |-> "none", seen |-> 0]

NoTally == [granted |-> 0, denied |-> 0, refilled |-> FALSE]

\* round(n / d) of Python 3 for d > 0: to the nearest integer, a tie to the
\* even one
Round(n, d) ==
    LET q == n \div d
        r == n % d
    IN  IF 2 * r < d THEN q
        ELSE IF 2 * r > d THEN q + 1
        ELSE IF q % 2 = 0 THEN q ELSE q + 1

\* to_add = round(elapsed * self.refresh_rate), tokenbucket.py 26
ToAdd == Round(elapsed * refresh_rate, TicksPerSecond)

\* a refill that adds without the cap at capacity
Refilled_NoCap == current_capacity + ToAdd

\* current_capacity after _refill_bucket, tokenbucket.py 25-27
Refilled ==
    IF elapsed > 0
    THEN Min(capacity, current_capacity + ToAdd)
    ELSE current_capacity

\* the result of one more call entered in the tally
Tallied(granted) ==
    IF tally.granted + tally.denied >= MaxCalls
    THEN tally
    ELSE IF granted
         THEN [tally EXCEPT !.granted = @ + 1]
         ELSE [tally EXCEPT !.denied = @ + 1]

\* time passes: monotonic() advances by one tick
Tick ==
    /\ elapsed' = Min(elapsed + 1, ElapsedCap)
    /\ UNCHANGED <<capacity, refresh_rate, current_capacity, lock, thread,
                   tally, kv_vars, mk_vars>>

\* a grant_access that enters without taking the lock
GrantLock_NoLock(t) ==
    /\ thread[t].pc = "idle"
    /\ current_capacity >= 0
    /\ lock' = t
    /\ thread' = [thread EXCEPT ![t] = [@ EXCEPT !.pc = "refill",
                                           !.result = "none"]]
    /\ UNCHANGED <<capacity, refresh_rate, current_capacity, elapsed, tally,
                   kv_vars, mk_vars>>

\* grant_access, tokenbucket.py 36: with self.lock.  A limiter whose count
\* has fallen below zero is followed no further.
GrantLock(t) ==
    /\ thread[t].pc = "idle"
    /\ lock = None
    /\ current_capacity >= 0
    /\ lock' = t
    /\ thread' = [thread EXCEPT ![t] = [@ EXCEPT !.pc = "refill",
                                           !.result = "none"]]
    /\ UNCHANGED <<capacity, refresh_rate, current_capacity, elapsed, tally,
                   kv_vars, mk_vars>>

\* grant_access, tokenbucket.py 37: self._refill_bucket(), lines 21-28
GrantRefill(t) ==
    /\ thread[t].pc = "refill"
    /\ current_capacity' = Refilled
    /\ elapsed' = 0
    /\ tally' = [tally EXCEPT !.refilled = @ \/ Refilled # current_capacity]
    /\ thread' = [thread EXCEPT ![t] = [@ EXCEPT !.pc = "check"]]
    /\ UNCHANGED <<capacity, refresh_rate, lock, kv_vars, mk_vars>>

\* grant_access, tokenbucket.py 39 and 42: the test of the count, the read
\* of the count for "-= 1", and the return of False
GrantCheck(t) ==
    /\ thread[t].pc = "check"
    /\ IF current_capacity > 0
       THEN /\ thread' = [thread EXCEPT ![t] =
                   [@ EXCEPT !.pc = "take", !.loaded = current_capacity]]
            /\ UNCHANGED <<lock, tally>>
       ELSE /\ thread' = [thread EXCEPT ![t] =
                   [@ EXCEPT !.pc = "idle", !.result = "denied"]]
            /\ lock' = None
            /\ tally' = Tallied(FALSE)
    /\ UNCHANGED <<capacity, refresh_rate, current_capacity, elapsed,
                   kv_vars, mk_vars>>

\* grant_access, tokenbucket.py 40-41: the write of "-= 1", return True
GrantTake(t) ==
    /\ thread[t].pc = "take"
    /\ current_capacity' = thread[t].loaded - 1
    /\ thread' = [thread EXCEPT ![t] =
          [@ EXCEPT !.pc = "idle", !.result = "granted"]]
    /\ lock' = None
    /\ tally' = Tallied(TRUE)
    /\ UNCHANGED <<capacity, refresh_rate, elapsed, kv_vars, mk_vars>>

\* get_current_capacity, tokenbucket.py 30-33
GetCurrentCapacity(t) ==
    /\ thread[t].pc = "idle"
    /\ lock = None
    /\ thread' = [thread EXCEPT ![t] = [@ EXCEPT !.seen = current_capacity]]
    /\ UNCHANGED <<capacity, refresh_rate, current_capacity, elapsed, lock,
                   tally, kv_vars, mk_vars>>

\* the state of a coordinator that is not run
KVUnused ==
    /\ nodes = <<>>
    /\ replication_factor = 0
    /\ hash_seed = 0
    /\ set_iter_order = <<>>
    /\ data = <<>>
    /\ handoff = <<>>
    /\ call = [c \in Callers |-> IdleCall]
    /\ ops = 0

\* the state of a TokenBucketLimiter that is not run
TBUnused ==
    /\ capacity = 0
    /\ refresh_rate = 0
    /\ current_capacity = 0
    /\ elapsed = 0
    /\ lock = None
    /\ thread = [t \in Threads |-> IdleThread]
    /\ tally = NoTally

\* ----------------------------------------------------- MultiKeyRateLimiter
NoBucket == 0

IdleWorker ==
    [pc |-> "idle", op |-> "none", key |-> None, bucket |-> NoBucket,
     result |-> "none"]

\* allow_request -> _get_or_create_bucket, tokenbucket.py 58-60: under
\* self.lock, a bucket is created when the key has none
AllowEnsure(t, key) ==
    /\ worker[t].pc = "idle"
    /\ worker' = [worker EXCEPT ![t] =
          [IdleWorker EXCEPT !.pc = "lookup", !.op = "allow_request",
              !.key = key]]
    /\ IF buckets[key] = NoBucket
       THEN /\ created < MaxBuckets
            /\ created' = created + 1
            /\ buckets' = [buckets EXCEPT ![key] = created + 1]
            /\ bucket_tokens' =
                  [bucket_tokens EXCEPT ![created + 1] = default_capacity]
       ELSE UNCHANGED <<created, buckets, bucket_tokens>>
    /\ UNCHANGED <<default_capacity, kv_vars, tb_vars>>

\* _get_or_create_bucket, tokenbucket.py 62: return self.buckets[key],
\* after the lock is released; KeyError when the key has no bucket
AllowLookup(t) ==
    /\ worker[t].pc = "lookup"
    /\ worker' = [worker EXCEPT ![t] =
          IF buckets[worker[t].key] = NoBucket
          THEN [@ EXCEPT !.pc = "raised"]
          ELSE [@ EXCEPT !.pc = "grant", !.bucket = buckets[worker[t].key]]]
    /\ UNCHANGED <<default_capacity, buckets, bucket_tokens, created,
                   kv_vars, tb_vars>>

\* allow_request, tokenbucket.py 67: bucket.grant_access() on the bucket
\* object in hand, after a refill of to_add tokens
AllowGrant(t) ==
    /\ worker[t].pc = "grant"
    /\ \E to_add \in 0..default_capacity :
         LET b == worker[t].bucket
             refilled == Min(default_capacity, bucket_tokens[b] + to_add)
         IN  /\ bucket_tokens' = [bucket_tokens EXCEPT ![b] =
                   IF refilled > 0 THEN refilled - 1 ELSE refilled]
             /\ worker' = [worker EXCEPT ![t] =
                   [@ EXCEPT !.pc = "idle",
                       !.result = IF refilled > 0 THEN "True" ELSE "False"]]
    /\ UNCHANGED <<default_capacity, buckets, created, kv_vars, tb_vars>>

\* remove_bucket, tokenbucket.py 80-86
RemoveBucket(t, key) ==
    /\ worker[t].pc = "idle"
    /\ worker' = [worker EXCEPT ![t] =
          [IdleWorker EXCEPT !.op = "remove_bucket", !.key = key,
              !.result = IF buckets[key] = NoBucket THEN "False" ELSE "True"]]
    /\ buckets' = [buckets EXCEPT ![key] = NoBucket]
    /\ UNCHANGED <<default_capacity, bucket_tokens, created, kv_vars, tb_vars>>

\* the state of a MultiKeyRateLimiter that is not run
MKUnused ==
    /\ default_capacity = 0
    /\ buckets = [k \in BucketKeys |-> NoBucket]
    /\ bucket_tokens = [b \in 1..MaxBuckets |-> 0]
    /\ created = 0
    /\ worker = [t \in Threads |-> IdleWorker]

\* ----------------------------------------------------------- specification
\* DistributedKeyValueStore(nodes, replication_factor), dist.py 7-9
Init ==
    /\ nodes \in Clusters
    /\ \E requested \in 0..MaxRF :
          replication_factor = Min(Len(nodes), requested)
    /\ hash_seed \in 0..MaxSeed
    /\ set_iter_order \in Orderings(nodes)
    /\ data = [n \in Range(nodes) |-> [k \in Keys |-> None]]
    /\ handoff = <<>>
    /\ call = [c \in Callers |-> IdleCall]
    /\ ops = 0
    /\ TBUnused
    /\ MKUnused

Next ==
    \E c \in SeqCallers :
        \/ \E key \in Keys : Get(c, key)
        \/ \E key \in Keys, value \in Values : PutPrimary(c, key, value)
        \/ PutReplica(c)
        \/ PutReturn(c)

Spec == Init /\ [][Next]_vars

\* KVNode, node.py 33-39: put always stores and returns True, get always
\* answers; a step in which every node call of the running calls succeeded
KVNodeStep ==
    \A c \in Callers :
        \A i \in 1..Len(call'[c].log) : call'[c].log[i].ok

\* the coordinator over KVNode nodes, one caller
NextKV == Next /\ KVNodeStep

SpecKV == Init /\ [][NextKV]_vars

\* the coordinator called by two callers at once
NextConc ==
    \E c \in Callers :
        \/ \E key \in Keys : Get(c, key)
        \/ \E key \in Keys, value \in Values : PutPrimary(c, key, value)
        \/ PutReplica(c)
        \/ PutReturn(c)

SpecConc == Init /\ [][NextConc]_vars

\* TokenBucketLimiter(capacity, refresh_rate), tokenbucket.py 14-19
InitTB ==
    /\ capacity \in 0..MaxCapacity
    /\ refresh_rate \in -1..MaxRate
    /\ current_capacity = capacity
    /\ elapsed = 0
    /\ lock = None
    /\ thread = [t \in Threads |-> IdleThread]
    /\ tally = NoTally
    /\ KVUnused
    /\ MKUnused

\* threads calling grant_access and get_current_capacity while time passes
NextTB ==
    \/ Tick
    \/ \E t \in Threads :
        \/ GrantLock(t)
        \/ GrantRefill(t)
        \/ GrantCheck(t)
        \/ GrantTake(t)
        \/ GetCurrentCapacity(t)

SpecTB == InitTB /\ [][NextTB]_vars

\* a limiter of capacity >= 1 and refresh_rate > 0
InitTBLive == InitTB /\ capacity >= 1 /\ refresh_rate > 0

\* one thread's grant_access, from the lock to the return
GrantAccess(t) ==
    \/ GrantLock(t)
    \/ GrantRefill(t)
    \/ GrantCheck(t)
    \/ GrantTake(t)

NextTBLive ==
    \/ Tick
    \/ \E t \in LiveThreads : GrantAccess(t)

\* time keeps advancing and grant_access keeps being called
SpecTBLive ==
    /\ InitTBLive
    /\ [][NextTBLive]_vars
    /\ WF_vars(Tick)
    /\ \A t \in LiveThreads : WF_vars(GrantAccess(t))

\* MultiKeyRateLimiter(default_capacity, default_refresh_rate),
\* tokenbucket.py 51-55
InitMK ==
    /\ default_capacity \in 0..MaxCapacity
    /\ buckets = [k \in BucketKeys |-> NoBucket]
    /\ bucket_tokens = [b \in 1..MaxBuckets |-> 0]
    /\ created = 0
    /\ worker = [t \in Threads |-> IdleWorker]
    /\ KVUnused
    /\ TBUnused

\* threads calling allow_request and remove_bucket
NextMK ==
    \E t \in Threads :
        \/ \E key \in BucketKeys : AllowEnsure(t, key)
        \/ AllowLookup(t)
        \/ AllowGrant(t)
        \/ \E key \in BucketKeys : RemoveBucket(t, key)

SpecMK == InitMK /\ [][NextMK]_vars

\* ------------------------------------------------------------------ claims
PutDone(c) == call[c].op = "put" /\ call[c].pc = "done"

GetDone(c) == call[c].op = "get" /\ call[c].pc = "done"

\* the primary's put of call c was made and returned success
PrimarySucceeded(c) ==
    /\ call[c].op = "put"
    /\ Len(call[c].log) >= 1
    /\ call[c].log[1].ok

\* positions in the log of call c of the replica puts that returned success
ReplicaSuccessPositions(c) ==
    {i \in 2..Len(call[c].log) :
        call[c].log[i].method = "put" /\ call[c].log[i].ok}

\* nodes that returned success for a put within call c
AcceptingNodes(c) ==
    {call[c].log[i].node : i \in {j \in 1..Len(call[c].log) :
        call[c].log[j].method = "put" /\ call[c].log[j].ok}}

\* the quorum as the specification states it, for N >= 1
StatedQuorum(N) == IF N = 1 THEN 1 ELSE 1 + (N \div 2)

\* the replicas of the primary at 0-based position p, in ring-walk order
StatedRingOrder(p) ==
    [i \in 1..Min(replication_factor - 1, Len(nodes) - 1) |->
        nodes[((p + i) % Len(nodes)) + 1]]

\* C1: when the primary's put fails, put returns False and the primary's
\* put is the only node call of that put: no replica is contacted.
C1_PrimaryFailureAborts ==
    \A c \in Callers :
        (call[c].op = "put" /\ Len(call[c].log) >= 1 /\ ~call[c].log[1].ok)
            => /\ call[c].pc = "done"
               /\ ~call[c].accepted
               /\ Len(call[c].log) = 1
               /\ call[c].log[1].node = call[c].primary

\* a put whose primary write failed in a cluster that has replicas to contact
C1_Witness ==
    \E c \in Callers :
        /\ PutDone(c)
        /\ ~call[c].log[1].ok
        /\ Len(nodes) >= 2
        /\ replication_factor >= 2

\* C2: for an effective replication factor N >= 1, a finished put returned
\* True exactly when the primary write succeeded and 1 + (replicas that
\* succeeded) reaches the stated quorum: 1 for N = 1, 1 + ceil((N-1)/2)
\* above (N=3 gives 2, N=4 gives 3, N=5 gives 3).
C2_AcceptedIffQuorum ==
    /\ WriteQuorumOf(1) = 1
    /\ WriteQuorumOf(3) = 2
    /\ WriteQuorumOf(4) = 3
    /\ WriteQuorumOf(5) = 3
    /\ \A c \in Callers :
        (PutDone(c) /\ replication_factor >= 1)
            => (call[c].accepted <=>
                  (/\ call[c].log[1].ok
                   /\ 1 + Cardinality(ReplicaSuccessPositions(c))
                        >= StatedQuorum(replication_factor)))

\* a put of replication factor 3 accepted with the primary and one of its
\* two replicas, the other replica having failed
C2_Witness ==
    \E c \in Callers :
        /\ PutDone(c)
        /\ replication_factor = 3
        /\ call[c].accepted
        /\ Cardinality(ReplicaSuccessPositions(c)) = 1
        /\ Len(call[c].log) = 3

\* C3: whenever put has returned True, at least writeQuorum distinct nodes
\* have each returned success for a put within that call.
C3_AcceptedMeansQuorumNodes ==
    \A c \in Callers :
        (PutDone(c) /\ call[c].accepted)
            => /\ Cardinality(AcceptingNodes(c)) >= WriteQuorum
               /\ call[c].primary \in AcceptingNodes(c)

\* an accepted put of replication factor 3 in which one replica failed
C3_Witness ==
    \E c \in Callers :
        /\ PutDone(c)
        /\ call[c].accepted
        /\ replication_factor = 3
        /\ Cardinality(AcceptingNodes(c)) = 2

\* C4: for every primary of the topology the replica list never contains
\* the primary, contains no node twice and has min(rf - 1, len(nodes) - 1)
\* nodes; it is empty when rf <= 1 or the cluster has one node.  The list a
\* put has resolved obeys the same.
ReplicaListOK(primary, replicas) ==
    /\ primary \notin Range(replicas)
    /\ Cardinality(Range(replicas)) = Len(replicas)
    /\ Range(replicas) \subseteq Range(nodes)
    /\ IF replication_factor <= 1 \/ Len(nodes) = 1
       THEN replicas = <<>>
       ELSE Len(replicas) = Min(replication_factor - 1, Len(nodes) - 1)

C4_ReplicaSetShape ==
    /\ \A primary \in Range(nodes) :
          ReplicaListOK(primary, GetReplicaNodes(primary))
    /\ \A c \in Callers :
          PrimarySucceeded(c) => ReplicaListOK(call[c].primary, call[c].replicas)

\* a put that resolved two replicas in a cluster of three
C4_Witness ==
    \E c \in Callers :
        /\ PrimarySucceeded(c)
        /\ Len(nodes) = 3
        /\ replication_factor = 3
        /\ Len(call[c].replicas) = 2

\* C5: the replica list is in ring-walk order (primary+1, primary+2, ...
\* modulo len(nodes)) and put contacts the replicas in that order.
C5_RingWalkOrder ==
    \A c \in Callers :
        PrimarySucceeded(c) =>
            LET ring == StatedRingOrder(Index(nodes, call[c].primary))
                contacted == [i \in 1..(Len(call[c].log) - 1) |->
                                call[c].log[i + 1].node]
            IN  /\ call[c].replicas = ring
                /\ GetReplicaNodes(call[c].primary) = ring
                /\ contacted = SubSeq(ring, 1, Len(contacted))

\* C6: after a put has returned, the handoff queue holds (node, key, value)
\* for every replica whose put failed in it.
C6_FailedReplicasEnqueued ==
    \A c \in Callers :
        PutDone(c) =>
            \A i \in 2..Len(call[c].log) :
                ~call[c].log[i].ok =>
                    <<call[c].log[i].node, call[c].key, call[c].value>>
                        \in Range(handoff)

\* C7: a get makes one node call, a get on the primary of its key, and
\* returns what that call returned, also when that is absent.
C7_GetReadsPrimaryOnly ==
    \A c \in Callers :
        GetDone(c) =>
            /\ Len(call[c].log) = 1
            /\ call[c].log[1].method = "get"
            /\ call[c].log[1].node = GetPrimaryNodeForKey(call[c].key)
            /\ call[c].got = call[c].primary_value

\* a get answered absent by the primary while another node holds the key
C7_Witness ==
    \E c \in Callers :
        /\ GetDone(c)
        /\ call[c].got = None
        /\ \E n \in Range(nodes) \ {call[c].primary} :
              data[n][call[c].key] # None

\* C8: a put whose primary write succeeded and whose quorum is not met
\* returns False, issues no delete, and leaves the new value on the primary
\* and on every replica that accepted it.
C8_NoRollback ==
    \A c \in Callers :
        (/\ PutDone(c)
         /\ call[c].log[1].ok
         /\ 1 + Cardinality(ReplicaSuccessPositions(c)) < WriteQuorum)
            => /\ ~call[c].accepted
               /\ \A i \in 1..Len(call[c].log) :
                     call[c].log[i].method # "delete"
               /\ \A n \in AcceptingNodes(c) :
                     data[n][call[c].key] = call[c].value

\* a refused put of replication factor 3 that left its value on the primary
C8_Witness ==
    \E c \in Callers :
        /\ PutDone(c)
        /\ ~call[c].accepted
        /\ call[c].log[1].ok
        /\ replication_factor = 3
        /\ Len(call[c].log) = 3
        /\ data[call[c].primary][call[c].key] = call[c].value

\* C9: on a coordinator built from an empty node list no get or put is
\* ever served or fails at call time.
C9_EmptyClusterServesNothing ==
    Len(nodes) = 0 => \A c \in Callers : call[c].pc = "idle"

\* C10: 1 <= effectiveReplicationFactor <= len(nodes) in every state.
C10_ReplicationFactorInRange ==
    1 <= replication_factor /\ replication_factor <= Len(nodes)

\* C11: the primary of a key depends only on the key and len(nodes): the
\* primary a call resolved is the one a process run with any other hash
\* seed resolves for that key on the same topology.
C11_PrimaryIndependentOfSeed ==
    \A c \in Callers :
        call[c].primary # None =>
            \A seed \in 0..MaxSeed :
                call[c].primary =
                    nodes[Abs(StrHash(call[c].key, seed) % Len(nodes)) + 1]

\* C13: once the primary write has succeeded, the replica puts made so far
\* are one put each on the first replicas of the resolved set, a failure
\* among them notwithstanding; a finished put has called every node of the
\* replica set exactly once and no node outside {primary} + replica set.
ReplicaCallNodes(c) ==
    [i \in 1..(Len(call[c].log) - 1) |-> call[c].log[i + 1].node]

C13_FanOutReachesEveryReplica ==
    \A c \in Callers :
        PrimarySucceeded(c) =>
            LET called == ReplicaCallNodes(c)
                replica_set == Range(RingReplicas(call[c].primary))
            IN  /\ \A i \in 1..Len(called) : call[c].log[i + 1].method = "put"
                /\ Range(called) \subseteq replica_set
                /\ Cardinality(Range(called)) = Len(called)
                /\ call[c].log[1].node = call[c].primary
                /\ call[c].pc = "done" => Range(called) = replica_set

\* a finished put whose first replica failed and whose second was called
C13_Witness ==
    \E c \in Callers :
        /\ PutDone(c)
        /\ Len(call[c].log) = 3
        /\ call[c].log[1].ok
        /\ ~call[c].log[2].ok

C15_ReplicasConverge ==
    (/\ \A c \in Callers :
            /\ PutDone(c)
            /\ \A i \in 1..Len(call[c].log) : call[c].log[i].ok
     /\ call["c1"].key = call["c2"].key
     /\ call["c1"].value # call["c2"].value)
        => \A n, m \in {call["c1"].primary} \cup Range(call["c1"].replicas) :
              data[n][call["c1"].key] = data[m][call["c1"].key]

\* the count, and every count get_current_capacity returned, is in 0..capacity
CountInRange ==
    /\ 0 <= current_capacity
    /\ current_capacity <= capacity
    /\ \A t \in Threads : 0 <= thread[t].seen /\ thread[t].seen <= capacity

\* C16 as stated: for capacity >= 0, 0 <= current_capacity <= capacity in
\* every state reached by grant_access and get_current_capacity calls of
\* any threads and any passage of time.
C16_CountInRange == CountInRange

\* C16 amended: the same for a limiter whose refresh_rate is not negative.
C16_CountInRangeForRate == refresh_rate >= 0 => CountInRange

\* a bucket of capacity 2 that was emptied, denied a call, and that a later
\* refill has brought back to exactly its capacity
C16_Witness ==
    /\ refresh_rate >= 1
    /\ capacity = 2
    /\ tally.granted >= 2
    /\ tally.denied >= 1
    /\ tally.refilled
    /\ current_capacity = capacity

\* C17: from a full bucket and as long as no refill has changed the count,
\* of the n grant_access calls that have returned exactly min(n, capacity)
\* returned True, whatever the threads that made them.
C17_GrantsMinOfCallsAndCapacity ==
    ~tally.refilled =>
        tally.granted = Min(tally.granted + tally.denied, capacity)

\* both threads have had calls answered: the tokens of a bucket of capacity
\* 2 were all granted and two further calls denied, with no refill
C17_Witness ==
    /\ ~tally.refilled
    /\ capacity = 2
    /\ tally.granted = 2
    /\ tally.denied = 2
    /\ thread["t1"].result = "granted"
    /\ thread["t2"].result = "denied"

\* C18: allow_request always completes with a boolean: the lookup of the
\* bucket after _get_or_create_bucket never fails.
C18_AllowRequestCompletes ==
    \A t \in Threads : worker[t].pc # "raised"

\* C19: after a call was denied (the bucket is empty), with time advancing
\* and grant_access being called again and again, a later call is granted.
C19_DeniedLeadsToGranted ==
    \A t \in LiveThreads :
        (thread[t].result = "denied") ~> (thread[t].result = "granted")

====
